---- MODULE Spec2Model ----
(***************************************************************************)
(* Model of packages/gatsby/src/redux/events/index.ts: the source event    *)
(* queue (fastq, concurrency 1), the AsyncLocalStorage context tracker,    *)
(* handler definition / invocation and runEvent.                           *)
(*                                                                         *)
(* JavaScript runs one synchronous job at a time.  `job` is the job the    *)
(* event loop is executing (none between jobs); the exported operations    *)
(* are steps of the current job and read its AsyncLocalStorage store.      *)
(***************************************************************************)
EXTENDS Integers, Sequences, FiniteSets, TLC

\* ---------------------------------------------------------------- bounds
MaxTasks == 3        \* tasks ever pushed to the queue
MaxHandlers == 2     \* handles produced by defineSourceEvent in SpecDefine
MaxDirect == 1       \* tasks pushed with getQueue().push directly
MaxDetached == 1     \* fire-and-forget continuations ever left behind

\* -------------------------------------------------------------- constants
Concurrency == 1     \* second argument of fastq(worker, 1)

Types == {"A", "B"}                 \* event type names
Args == {"x", "y"}                  \* argument payloads
Values == {"undefined", "0", "v"}   \* values a handler returns / fulfils with
Promise == "promise"                \* a handler's result that has a then method
Plugins == {"p1"}                   \* plugin identities

Undefined == [type |-> "undefined", uuid |-> 0]   \* getStore() outside any run scope
Null == [type |-> "null", uuid |-> 0]             \* the null of ITask.parent: string | null
NullPlugin == "null"                              \* plugin slot before registration

ErrType == "Your event is missing a type name."
ErrDescription == "Please add a description to your event"
ErrHandler == "Please add a handler to your event"
ErrNotRegistered == "Please make sure you registered the function"
ErrTypeError == "TypeError: Cannot read properties of null (reading 'run')"
NoError == "none"

\* A definition passed to defineSourceEvent; "" and "undefined" are the falsy inputs.
Definitions ==
  [type : Types \cup {"", "undefined"},
   description : {"d", "", "undefined"},
   handler : {"fn", "undefined"}]

VARIABLES
  handlers,          \* the handles produced by defineSourceEvent: [type, plugin]
  tasks,             \* every task pushed, in push order (index = task id)
  queue,             \* fastq's waiting list (task ids)
  running,           \* fastq's _running counter
  eventSystemQueue,  \* number of queues created (0 = null)
  asyncStorage,      \* number of AsyncLocalStorage instances created (0 = null)
  uuid,              \* number of uuid.v4() values drawn
  started,           \* task ids in the order their handler bodies began
  job,               \* the synchronous job being executed
  lastCall           \* the latest call of an exported operation in this job

vars == <<handlers, tasks, queue, running, eventSystemQueue, asyncStorage,
          uuid, started, job, lastCall>>

NoJob == [kind |-> "none", task |-> 0, ctx |-> Undefined]
NoDefinition == [type |-> "undefined", description |-> "undefined",
                 handler |-> "undefined"]
NoCall == [op |-> "none", def |-> NoDefinition, hs |-> <<>>, name |-> "",
           args |-> "", error |-> NoError, ret |-> 0, calls |-> <<>>,
           promise |-> "none"]

\* The mutable part of the program state, threaded through the operations.
M == [tasks |-> tasks, queue |-> queue, running |-> running,
      eventSystemQueue |-> eventSystemQueue, asyncStorage |-> asyncStorage,
      uuid |-> uuid, calls |-> <<>>, thrown |-> NoError, promise |-> "none"]

Commit(m) ==
  /\ tasks' = m.tasks
  /\ queue' = m.queue
  /\ running' = m.running
  /\ eventSystemQueue' = m.eventSystemQueue
  /\ asyncStorage' = m.asyncStorage
  /\ uuid' = m.uuid

\* ------------------------------------------------------- context tracker
\* Mutant: one process-wide "current token", that of the task begun last.
getStoreOfLastStarted(store) ==
  IF started = <<>> THEN Undefined ELSE tasks[started[Len(started)]].token

\* asyncStorage.getStore(): the store of the calling execution branch.
getStore(store) == store

\* Mutant: setImmediate scheduled outside the run scope.
runOutsideScope(token, outer) == outer

\* asyncStorage.run(token, fn): the store seen by fn and by what fn schedules.
run(token, outer) == token

\* Mutant: the token is the type name alone.
TokenOfType(type, n) == [type |-> type, uuid |-> 1]

\* `${type}-${uuid.v4()}`
Token(type, n) == [type |-> type, uuid |-> n]

\* ------------------------------------------------------------ task queue
\* Mutant: the handler called by the worker itself, without setImmediate.
workerSynchronous(m, t, outer) ==
  IF m.asyncStorage = 0
  THEN [m EXCEPT !.tasks[t].st = "stuck", !.thrown = ErrTypeError]
  ELSE LET token == Token(m.tasks[t].type, m.uuid + 1)
       IN [m EXCEPT !.uuid = @ + 1,
                    !.tasks[t].token = token,
                    !.tasks[t].ctx = run(token, outer),
                    !.tasks[t].st = "scheduled",
                    !.tasks[t].body = "sync"]

\* The fastq worker: generates the token, enters the run scope and schedules
\* the handler with setImmediate.  With asyncStorage null the call throws.
worker(m, t, outer) ==
  IF m.asyncStorage = 0
  THEN [m EXCEPT !.tasks[t].st = "stuck", !.thrown = ErrTypeError]
  ELSE LET token == Token(m.tasks[t].type, m.uuid + 1)
       IN [m EXCEPT !.uuid = @ + 1,
                    !.tasks[t].token = token,
                    !.tasks[t].ctx = run(token, outer),
                    !.tasks[t].st = "scheduled"]

\* Mutant: no limit on the tasks in progress.
pushWithoutLimit(m, task, outer) ==
  LET id == Len(m.tasks) + 1
      m1 == [m EXCEPT !.tasks = Append(@, task)]
  IN worker([m1 EXCEPT !.running = @ + 1], id, outer)

\* fastq push: run the worker at once when a slot is free, else wait in line.
push(m, task, outer) ==
  LET id == Len(m.tasks) + 1
      m1 == [m EXCEPT !.tasks = Append(@, task)]
  IN IF m1.running >= Concurrency
     THEN [m1 EXCEPT !.queue = Append(@, id)]
     ELSE worker([m1 EXCEPT !.running = @ + 1], id, outer)

\* Mutant: the waiting list served from its tail.
releaseNewestFirst(m, outer) ==
  IF m.queue # <<>>
  THEN worker([m EXCEPT !.queue = SubSeq(@, 1, Len(@) - 1)], m.queue[Len(m.queue)], outer)
  ELSE [m EXCEPT !.running = @ - 1]

\* fastq release: hand the next waiting task to the worker, else free the slot.
release(m, outer) ==
  IF m.queue # <<>>
  THEN worker([m EXCEPT !.queue = Tail(@)], Head(m.queue), outer)
  ELSE [m EXCEPT !.running = @ - 1]

\* Mutant: the callback called without the result.
cbWithoutResult(m, t, result, outer) ==
  release([m EXCEPT !.tasks[t].st = "done",
                    !.tasks[t].fut = "resolved",
                    !.tasks[t].result = "undefined"], outer)

\* cb(null, result): the push callback resolves the future, then fastq releases.
cb(m, t, result, outer) ==
  release([m EXCEPT !.tasks[t].st = "done",
                    !.tasks[t].fut = "resolved",
                    !.tasks[t].result = result], outer)

\* result?.then: undefined for undefined, for a number and for a string.
IsThenable(result) == result = Promise

\* Mutant: cb called at once, also for a promise.
handleResultWithoutWaiting(m, t, thenable, result, outer) ==
  cb([m EXCEPT !.tasks[t].body = IF thenable THEN "pending" ELSE "returned"],
     t, result, outer)

\* What the worker does with the handler's result.
handleResult(m, t, thenable, result, outer) ==
  IF thenable
  THEN [m EXCEPT !.tasks[t].body = "pending"]
  ELSE cb([m EXCEPT !.tasks[t].body = "returned"], t, result, outer)

getQueue(m) ==
  IF m.eventSystemQueue = 0 THEN [m EXCEPT !.eventSystemQueue = @ + 1] ELSE m

NewTask(type, h, args, parent, plugin, via) ==
  [type |-> type, h |-> h, args |-> args, parent |-> parent, plugin |-> plugin,
   via |-> via, by |-> job.task, token |-> Undefined, ctx |-> Undefined, st |-> "queued",
   body |-> "none", fut |-> "pending", result |-> "none", awaits |-> 0,
   detached |-> "no", out |-> "none"]

\* new Promise(executor): an exception of the executor rejects the promise.
pushTaskToQueue(m, task, outer) ==
  LET id == Len(m.tasks) + 1
      m1 == push(getQueue(m), task, outer)
  IN IF m1.thrown # NoError
     THEN [m1 EXCEPT !.tasks[id].fut = "rejected", !.thrown = NoError]
     ELSE m1

\* ---------------------------------------------------- handler registration
wrapHandlerWithEventTracking(d) == [type |-> d.type, plugin |-> NullPlugin]

Falsy(x) == x \in {"", "undefined"}

\* Mutant: the description checked before the type.
ValidationErrorDescriptionFirst(d) ==
  IF Falsy(d.description) THEN ErrDescription
  ELSE IF Falsy(d.type) THEN ErrType
  ELSE IF Falsy(d.handler) THEN ErrHandler
  ELSE NoError

ValidationError(d) ==
  IF Falsy(d.type) THEN ErrType
  ELSE IF Falsy(d.description) THEN ErrDescription
  ELSE IF Falsy(d.handler) THEN ErrHandler
  ELSE NoError

\* One record per invocation of a handle: how the call itself ended (raised)
\* and the promise it returned.
CallRecord(h, args, raised, promise, error, task) ==
  [h |-> h, args |-> args, raised |-> raised, promise |-> promise,
   error |-> error, task |-> task]

\* Mutant: a plain function, whose throw reaches the caller.
SyncThrow(h, args, error) == CallRecord(h, args, TRUE, "none", error, 0)

\* An async function: a throw in its body rejects the promise it returns.
AsyncThrow(h, args, error) == CallRecord(h, args, FALSE, "rejected", error, 0)

\* Mutant: no check of the plugin slot.
wrappedFunctionUnchecked(m, h, args, store) ==
  LET m1 == IF m.asyncStorage = 0 THEN [m EXCEPT !.asyncStorage = @ + 1] ELSE m
      id == Len(m.tasks) + 1
      task == NewTask(handlers[h].type, h, args, getStore(store),
                      handlers[h].plugin, "invoke")
      m2 == pushTaskToQueue(m1, task, store)
  IN [m2 EXCEPT !.calls =
        Append(@, CallRecord(h, args, FALSE, m2.tasks[id].fut, NoError, id))]

wrappedFunction(m, h, args, store) ==
  IF handlers[h].plugin = NullPlugin
  THEN [m EXCEPT !.calls = Append(@, AsyncThrow(h, args, ErrNotRegistered))]
  ELSE LET m1 == IF m.asyncStorage = 0
                 THEN [m EXCEPT !.asyncStorage = @ + 1] ELSE m
           id == Len(m.tasks) + 1
           task == NewTask(handlers[h].type, h, args, getStore(store),
                           handlers[h].plugin, "invoke")
           m2 == pushTaskToQueue(m1, task, store)
       IN [m2 EXCEPT !.calls =
             Append(@, CallRecord(h, args, FALSE, m2.tasks[id].fut, NoError, id))]

\* ------------------------------------------------------------- dispatcher
\* Mutant: every handle of the array is invoked.
MatchesAny(h, eventName) == TRUE

Matches(h, eventName) == handlers[h].type = eventName

\* An exception raised by a call leaves the function it was made in.
Raised(m) == m.calls # <<>> /\ m.calls[Len(m.calls)].raised

\* for (const event of sourceEvents): an exception raised by event(args)
\* would leave the loop.
RECURSIVE runEventLoop(_, _, _, _, _)
runEventLoop(m, sourceEvents, eventName, args, store) ==
  IF sourceEvents = <<>> THEN m
  ELSE LET m1 == IF Matches(Head(sourceEvents), eventName)
                 THEN wrappedFunction(m, Head(sourceEvents), args, store)
                 ELSE m
       IN IF Raised(m1) THEN m1
          ELSE runEventLoop(m1, Tail(sourceEvents), eventName, args, store)

\* Mutant: the promises the calls return are collected and awaited.
runEventAwaitingAll(m, sourceEvents, eventName, args, store) ==
  LET m1 == runEventLoop(m, sourceEvents, eventName, args, store)
  IN [m1 EXCEPT !.promise =
        IF Raised(m1) THEN "rejected"
        ELSE IF \E c \in 1..Len(m1.calls) : m1.calls[c].promise = "pending"
        THEN "pending" ELSE "resolved"]

\* The promises the calls return are dropped and runEvent awaits nothing: the
\* async function runs to its end in the calling job and its promise resolves,
\* unless an exception left the loop, which rejects it.
runEvent(m, sourceEvents, eventName, args, store) ==
  LET m1 == runEventLoop(m, sourceEvents, eventName, args, store)
  IN [m1 EXCEPT !.promise = IF Raised(m1) THEN "rejected" ELSE "resolved"]

\* ------------------------------------------------------------------ state
\* The handles that exist once the plugins' modules are loaded, each the
\* result of a defineSourceEvent call that succeeded: two handles, of two
\* event types or of the same one (the type names are interchangeable).
Definition(type) == [type |-> type, description |-> "d", handler |-> "fn"]

LoadedHandlers ==
  {<<wrapHandlerWithEventTracking(Definition("A")),
     wrapHandlerWithEventTracking(Definition(type))>> : type \in Types}

InitQueue ==
  /\ tasks = <<>>
  /\ queue = <<>>
  /\ running = 0
  /\ eventSystemQueue = 0
  /\ asyncStorage = 0
  /\ uuid = 0
  /\ started = <<>>
  /\ job = NoJob
  /\ lastCall = NoCall

Init == handlers \in LoadedHandlers /\ InitQueue

\* Module load: defineSourceEvent applied to definitions, nothing else yet.
InitDefine == handlers = <<>> /\ InitQueue

Idle == job.kind = "none"
InJob == job.kind # "none"

\* Ends the current job: the event loop is free for the next callback.
EndJob == job' = NoJob /\ lastCall' = NoCall

\* ------------------------------------------- operations of the current job
\* defineSourceEvent(definition)
defineSourceEvent(d) ==
  /\ LET error == ValidationError(d)
     IN IF error # NoError
        THEN /\ lastCall' = [NoCall EXCEPT !.op = "define", !.def = d,
                                           !.error = error]
             /\ UNCHANGED handlers
        ELSE /\ Len(handlers) < MaxHandlers
             /\ handlers' = Append(handlers, wrapHandlerWithEventTracking(d))
             /\ lastCall' = [NoCall EXCEPT !.op = "define", !.def = d,
                                           !.ret = Len(handlers) + 1]
  /\ UNCHANGED <<tasks, queue, running, eventSystemQueue, asyncStorage, uuid,
                 started, job>>

\* The plugin loader binds the plugin identity: handle.plugin = plugin
Register(h, p) ==
  /\ InJob
  /\ job.kind = "top"
  /\ h \in 1..Len(handlers)
  /\ handlers[h].plugin = NullPlugin
  /\ handlers' = [handlers EXCEPT ![h].plugin = p]
  /\ lastCall' = [NoCall EXCEPT !.op = "register", !.ret = h]
  /\ UNCHANGED <<tasks, queue, running, eventSystemQueue, asyncStorage, uuid,
                 started, job>>

\* handle(args): a registered or unregistered handle is invoked.
Invoke(h, args) ==
  /\ InJob
  /\ h \in 1..Len(handlers)
  /\ handlers[h].plugin # NullPlugin => Len(tasks) < MaxTasks
  /\ LET m == wrappedFunction(M, h, args, job.ctx)
     IN /\ Commit(m)
        /\ lastCall' = [NoCall EXCEPT !.op = "invoke", !.args = args,
                                      !.error = m.calls[1].error,
                                      !.ret = m.calls[1].task,
                                      !.calls = m.calls]
  /\ UNCHANGED <<handlers, started, job>>

Registered(hs, eventName) ==
  {i \in 1..Len(hs) : Matches(hs[i], eventName) /\ handlers[hs[i]].plugin # NullPlugin}

\* runEvent(sourceEvents, eventName, args)
RunEvent(hs, eventName, args) ==
  /\ InJob
  /\ Len(tasks) + Cardinality(Registered(hs, eventName)) <= MaxTasks
  /\ LET m == runEvent(M, hs, eventName, args, job.ctx)
     IN /\ Commit(m)
        /\ lastCall' = [NoCall EXCEPT !.op = "runEvent", !.hs = hs,
                                      !.name = eventName, !.args = args,
                                      !.calls = m.calls,
                                      !.promise = m.promise]
  /\ UNCHANGED <<handlers, started, job>>

\* getQueue().push(task, done): a task pushed without going through a handle.
DirectPush(type, args) ==
  /\ InJob
  /\ Len(tasks) < MaxTasks
  /\ Cardinality({t \in 1..Len(tasks) : tasks[t].via = "push"}) < MaxDirect
  /\ LET m0 == getQueue(M)
         m == push(m0, NewTask(type, 0, args, Undefined, "p1", "push"), job.ctx)
     IN /\ Commit(m)
        /\ lastCall' = [NoCall EXCEPT !.op = "push",
                                      !.error = m.thrown,
                                      !.ret = Len(tasks) + 1]
  /\ UNCHANGED <<handlers, started, job>>

\* The handler leaves a fire-and-forget continuation (a timer, an un-awaited
\* promise chain); it inherits the store of the code that created it.
Detach ==
  /\ InJob
  /\ job.kind # "top"
  /\ Cardinality({t \in 1..Len(tasks) : tasks[t].detached # "no"}) < MaxDetached
  /\ tasks' = [tasks EXCEPT ![job.task].detached = "pending"]
  /\ UNCHANGED <<handlers, queue, running, eventSystemQueue, asyncStorage, uuid,
                 started, job, lastCall>>

\* --------------------------------------------------------- event loop jobs
\* Code outside any run scope (module top level, plugin loader, a test).
TopLevel ==
  /\ Idle
  /\ job' = [kind |-> "top", task |-> 0, ctx |-> Undefined]
  /\ UNCHANGED <<handlers, tasks, queue, running, eventSystemQueue, asyncStorage,
                 uuid, started, lastCall>>

EndTop ==
  /\ InJob
  /\ job.kind = "top"
  /\ EndJob
  /\ UNCHANGED <<handlers, tasks, queue, running, eventSystemQueue, asyncStorage,
                 uuid, started>>

\* The setImmediate callback of task t fires: the handler body begins.
Immediate(t) ==
  /\ Idle
  /\ t \in 1..Len(tasks)
  /\ tasks[t].st = "scheduled"
  /\ tasks[t].body = "none"
  /\ tasks' = [tasks EXCEPT ![t].body = "sync"]
  /\ started' = Append(started, t)
  /\ job' = [kind |-> "body", task |-> t, ctx |-> tasks[t].ctx]
  /\ UNCHANGED <<handlers, queue, running, eventSystemQueue, asyncStorage, uuid,
                 lastCall>>

\* handler(...) returns a plain value: cb(null, result).
ReturnPlain(v) ==
  /\ InJob
  /\ job.kind = "body"
  /\ Commit(handleResult([M EXCEPT !.tasks[job.task].out = v], job.task,
                         IsThenable(v), v, job.ctx))
  /\ EndJob
  /\ UNCHANGED <<handlers, started>>

\* handler(...) returns a promise: result.then(res => cb(null, res)).
\* w is what the handler is waiting for: 0 an external event, -1 nothing that
\* ever happens, i > 0 the future of task i that it invoked itself.
Awaitable(t) ==
  {0, -1} \cup {i \in 1..Len(tasks) : tasks[i].by = t /\ tasks[i].via = "invoke"}

ReturnPromise(w) ==
  /\ InJob
  /\ job.kind = "body"
  /\ w \in Awaitable(job.task)
  /\ LET m == handleResult(M, job.task, IsThenable(Promise), Promise, job.ctx)
     IN Commit([m EXCEPT !.tasks[job.task].awaits = w])
  /\ EndJob
  /\ UNCHANGED <<handlers, started>>

\* handler(...) throws inside the setImmediate callback: nothing catches it.
Throw ==
  /\ InJob
  /\ job.kind = "body"
  /\ tasks' = [tasks EXCEPT ![job.task].body = "threw"]
  /\ EndJob
  /\ UNCHANGED <<handlers, queue, running, eventSystemQueue, asyncStorage, uuid,
                 started>>

CanResume(t) ==
  \/ tasks[t].awaits = 0
  \/ tasks[t].awaits > 0 /\ tasks[tasks[t].awaits].fut # "pending"

\* The suspended handler of task t resumes after an await.
Resume(t) ==
  /\ Idle
  /\ t \in 1..Len(tasks)
  /\ tasks[t].body = "pending"
  /\ CanResume(t)
  /\ job' = [kind |-> "tail", task |-> t, ctx |-> tasks[t].ctx]
  /\ UNCHANGED <<handlers, tasks, queue, running, eventSystemQueue, asyncStorage,
                 uuid, started, lastCall>>

\* ... and suspends again at its next await.
Suspend(w) ==
  /\ InJob
  /\ job.kind = "tail"
  /\ w \in Awaitable(job.task)
  /\ tasks' = [tasks EXCEPT ![job.task].awaits = w]
  /\ EndJob
  /\ UNCHANGED <<handlers, queue, running, eventSystemQueue, asyncStorage, uuid,
                 started>>

\* The returned promise fulfils: the then-callback calls cb(null, res).
Fulfil(v) ==
  /\ InJob
  /\ job.kind = "tail"
  /\ Commit(cb([M EXCEPT !.tasks[job.task].body = "fulfilled",
                          !.tasks[job.task].awaits = 0,
                          !.tasks[job.task].out = v], job.task, v, job.ctx))
  /\ EndJob
  /\ UNCHANGED <<handlers, started>>

\* The returned promise rejects: then() was given no rejection callback.
Reject ==
  /\ InJob
  /\ job.kind = "tail"
  /\ tasks' = [tasks EXCEPT ![job.task].body = "rejected", ![job.task].awaits = 0]
  /\ EndJob
  /\ UNCHANGED <<handlers, queue, running, eventSystemQueue, asyncStorage, uuid,
                 started>>

\* A fire-and-forget continuation of task t runs, whatever t's state is now.
ResumeDetached(t) ==
  /\ Idle
  /\ t \in 1..Len(tasks)
  /\ tasks[t].detached = "pending"
  /\ tasks' = [tasks EXCEPT ![t].detached = "ran"]
  /\ job' = [kind |-> "detached", task |-> t, ctx |-> tasks[t].ctx]
  /\ UNCHANGED <<handlers, queue, running, eventSystemQueue, asyncStorage, uuid,
                 started, lastCall>>

EndDetached ==
  /\ InJob
  /\ job.kind = "detached"
  /\ EndJob
  /\ UNCHANGED <<handlers, tasks, queue, running, eventSystemQueue, asyncStorage,
                 uuid, started>>

\* runEvent is given the known handlers, in any order.
HandleLists ==
  {hs \in [1..Len(handlers) -> 1..Len(handlers)] :
     \A i, j \in 1..Len(handlers) : hs[i] = hs[j] => i = j}

\* The operations and event-loop steps of the queue, with the handles'
\* arguments drawn from A and the handlers' results from V.
NextCore(A, V) ==
  \/ \E h \in 1..Len(handlers), p \in Plugins : Register(h, p)
  \/ \E h \in 1..Len(handlers), a \in A : Invoke(h, a)
  \/ \E hs \in HandleLists, n \in Types, a \in A : RunEvent(hs, n, a)
  \/ TopLevel
  \/ EndTop
  \/ \E t \in 1..Len(tasks) : Immediate(t)
  \/ \E v \in V : ReturnPlain(v)
  \/ \E w \in -1..Len(tasks) : ReturnPromise(w)
  \/ Throw
  \/ \E t \in 1..Len(tasks) : Resume(t)
  \/ \E w \in -1..Len(tasks) : Suspend(w)
  \/ \E v \in V : Fulfil(v)
  \/ Reject

Next == NextCore({"x"}, {"v"})

Spec == Init /\ [][Next]_vars

\* The same with tasks pushed directly on the queue and with handlers that
\* leave fire-and-forget continuations behind.
NextFull ==
  \/ Next
  \/ DirectPush("A", "x")
  \/ Detach
  \/ \E t \in 1..Len(tasks) : ResumeDetached(t)
  \/ EndDetached

SpecFull == Init /\ [][NextFull]_vars

\* The same as Spec with every argument value.
NextArgs == NextCore(Args, {"v"})

SpecArgs == Init /\ [][NextArgs]_vars

\* The same as Spec with every value a handler may produce.
NextValues == NextCore({"x"}, Values)

SpecValues == Init /\ [][NextValues]_vars

\* The exported operations with handlers that terminate: a handler returns a
\* plain value or a promise that fulfils, and awaits external events only.
NextFair ==
  \/ \E h \in 1..Len(handlers), p \in Plugins : Register(h, p)
  \/ \E h \in 1..Len(handlers) : Invoke(h, "x")
  \/ \E hs \in HandleLists, n \in Types : RunEvent(hs, n, "x")
  \/ DirectPush("A", "x")
  \/ TopLevel
  \/ EndTop
  \/ \E t \in 1..Len(tasks) : Immediate(t)
  \/ ReturnPlain("v")
  \/ ReturnPromise(0)
  \/ \E t \in 1..Len(tasks) : Resume(t)
  \/ Suspend(0)
  \/ Fulfil("v")

\* The event loop runs every callback that is due (setImmediate callbacks,
\* continuations of settled awaits) however many other jobs arrive; a
\* synchronous block runs to its end; an awaited promise fulfils in the end.
Fairness ==
  /\ \A t \in 1..MaxTasks : SF_vars(Immediate(t)) /\ SF_vars(Resume(t))
  /\ WF_vars(EndTop)
  /\ WF_vars(ReturnPlain("v") \/ ReturnPromise(0))
  /\ SF_vars(Fulfil("v"))

SpecFair == Init /\ [][NextFair]_vars /\ Fairness

NextDefine == \E d \in Definitions : defineSourceEvent(d)

SpecDefine == InitDefine /\ [][NextDefine]_vars

\* ================================================================ claims
TaskIds == 1..Len(tasks)
Started(t) == tasks[t].body # "none"
Executing(t) == tasks[t].body \in {"sync", "pending"}
Completed(t) == tasks[t].body \in {"returned", "fulfilled", "threw", "rejected"}

\* C1: at most one task is between handler start and completion, and a task's
\* handler body has completed (its returned promise settled) before the body
\* of any task pushed after it begins.
C1_SerialExecution ==
  /\ Cardinality({t \in TaskIds : Executing(t)}) <= 1
  /\ \A i, j \in TaskIds : i < j /\ Started(j) => Completed(i)

\* Three tasks: the first returned a promise that fulfilled, the second
\* completed, and only then the third began.
C1_Witness ==
  /\ Len(tasks) = 3
  /\ tasks[1].body = "fulfilled"
  /\ Completed(2)
  /\ tasks[3].body = "sync"

\* C2: handler bodies begin in push order: the order in which bodies began
\* is increasing in the task ids, and no task that is still waiting was
\* pushed before a task that already began.
C2_SubmissionOrder ==
  /\ \A i, j \in 1..Len(started) : i < j => started[i] < started[j]
  /\ \A i, j \in TaskIds : i < j /\ Started(j) => Started(i)

\* Three bodies began in order, the tasks coming from top-level code and
\* from inside a running handler.
C2_Witness ==
  /\ started = <<1, 2, 3>>
  /\ \E t \in TaskIds : tasks[t].by = 0
  /\ \E t \in TaskIds : tasks[t].by > 0 /\ tasks[tasks[t].by].body # "none"

\* C3 (as claimed): once a handler has thrown synchronously its future is
\* rejected and the worker is free for the next task.
C3_SyncThrowRejects ==
  \A t \in TaskIds :
    tasks[t].body = "threw" => tasks[t].fut = "rejected" /\ tasks[t].st = "done"

\* C4 (as claimed): once the promise a handler returned has rejected, the
\* task's future is rejected and the worker is free for the next task.
C4_AsyncRejectionIsolated ==
  \A t \in TaskIds :
    tasks[t].body = "rejected" => tasks[t].fut = "rejected" /\ tasks[t].st = "done"

\* C5: a task invoked from inside the execution of task t records t's
\* generated token as its parent.
C5_ParentIsOuterToken ==
  \A i \in TaskIds :
    tasks[i].via = "invoke" /\ tasks[i].by > 0 =>
      /\ tasks[tasks[i].by].token # Undefined
      /\ tasks[i].parent = tasks[tasks[i].by].token

\* A handler invoked another handle after an await: the inner task carries
\* the outer task's token.
C5_Witness ==
  /\ job.kind = "tail"
  /\ lastCall.op = "invoke"
  /\ lastCall.ret > 0
  /\ tasks[lastCall.ret].by = job.task
  /\ tasks[lastCall.ret].parent = tasks[job.task].token

\* C6: the store read in an execution branch is never the token established
\* for another branch: neither the store of the running job nor the parent
\* recorded by an invocation is the token of a task other than its own.
C6_NoCrossContamination ==
  /\ \A u \in TaskIds :
       job.kind # "none" /\ u # job.task /\ tasks[u].token # Undefined =>
         job.ctx # tasks[u].token
  /\ \A i, u \in TaskIds :
       tasks[i].via = "invoke" /\ u # tasks[i].by /\ tasks[u].token # Undefined =>
         tasks[i].parent # tasks[u].token

\* The fire-and-forget continuation of a finished task invokes a handle while
\* a later task is executing, and records its own task's token.
C6_Witness ==
  /\ job.kind = "detached"
  /\ Completed(job.task)
  /\ \E u \in TaskIds : u # job.task /\ tasks[u].body = "pending"
  /\ lastCall.op = "invoke"
  /\ lastCall.ret > 0
  /\ tasks[lastCall.ret].parent = tasks[job.task].token

\* C7: invoking a handle whose plugin slot is null fails with the
\* not-registered error and leaves the tasks, the waiting list and the
\* running count as they were.
C7_UnregisteredEnqueuesNothing ==
  [][\A h \in 1..Len(handlers), a \in Args :
       Invoke(h, a) /\ handlers[h].plugin = NullPlugin =>
         /\ lastCall'.error = ErrNotRegistered
         /\ lastCall'.ret = 0
         /\ UNCHANGED <<tasks, queue, running>>]_vars

\* An unregistered handle was invoked while a task was running and another
\* was waiting.
C7_Witness ==
  /\ lastCall.op = "invoke"
  /\ lastCall.error = ErrNotRegistered
  /\ running = 1
  /\ queue # <<>>

\* C8 (as claimed): the not-registered error is raised by the call itself and
\* no promise is returned.
C8_RaisedSynchronously ==
  \A i \in 1..Len(lastCall.calls) :
    lastCall.calls[i].error = ErrNotRegistered =>
      lastCall.calls[i].raised /\ lastCall.calls[i].promise = "none"

\* C8 (amended): the call of an unregistered handle returns normally, with a
\* promise that is already rejected with the not-registered error.
C8_RejectedPromise ==
  \A i \in 1..Len(lastCall.calls) :
    handlers[lastCall.calls[i].h].plugin = NullPlugin =>
      /\ ~lastCall.calls[i].raised
      /\ lastCall.calls[i].promise = "rejected"
      /\ lastCall.calls[i].error = ErrNotRegistered

\* A running handler invoked an unregistered handle and got a rejected promise.
C8_Witness ==
  /\ job.kind = "body"
  /\ lastCall.op = "invoke"
  /\ lastCall.calls[1].promise = "rejected"
  /\ lastCall.calls[1].error = ErrNotRegistered

IsMissing(x) == x = "" \/ x = "undefined"

\* C9: defineSourceEvent fails exactly when type, description or handler is
\* missing or empty, naming the first missing field in that order; a failure
\* produces no handle, a success produces one handle with the definition's
\* type and a null plugin slot.
C9_DefineValidation ==
  [][\A d \in Definitions :
       defineSourceEvent(d) =>
         LET error == lastCall'.error IN
         /\ (error # NoError) <=>
              (IsMissing(d.type) \/ IsMissing(d.description) \/ IsMissing(d.handler))
         /\ IsMissing(d.type) => error = ErrType
         /\ ~IsMissing(d.type) /\ IsMissing(d.description) => error = ErrDescription
         /\ ~IsMissing(d.type) /\ ~IsMissing(d.description) /\ IsMissing(d.handler)
              => error = ErrHandler
         /\ error # NoError => handlers' = handlers /\ lastCall'.ret = 0
         /\ error = NoError =>
              /\ Len(handlers') = Len(handlers) + 1
              /\ SubSeq(handlers', 1, Len(handlers)) = handlers
              /\ lastCall'.ret = Len(handlers')
              /\ handlers'[lastCall'.ret].type = d.type
              /\ handlers'[lastCall'.ret].plugin = NullPlugin]_vars

\* A definition without description and handler was rejected for its
\* description, after another definition had succeeded.
C9_Witness ==
  /\ lastCall.op = "define"
  /\ lastCall.error = ErrDescription
  /\ IsMissing(lastCall.def.handler)
  /\ Len(handlers) >= 1

MatchingPositions(hs, eventName) ==
  {i \in 1..Len(hs) : handlers[hs[i]].type = eventName}

Rank(I, i) == Cardinality({j \in I : j <= i})

\* C10: runEvent invokes the handles whose type equals eventName, once per
\* position, with args, in the order of the array, and no other handle; the
\* tasks it adds are those of the invoked registered handles.
C10_RunEventDispatch ==
  [][\A hs \in HandleLists, n \in Types, a \in Args :
       RunEvent(hs, n, a) =>
         LET I == MatchingPositions(hs, n)
             calls == lastCall'.calls
             added == {k \in 1..Len(tasks') : k > Len(tasks)}
         IN /\ Len(calls) = Cardinality(I)
            /\ \A i \in I : /\ calls[Rank(I, i)].h = hs[i]
                            /\ calls[Rank(I, i)].args = a
            /\ \A k \in added :
                 /\ tasks'[k].type = n
                 /\ tasks'[k].args = a
                 /\ \E c \in 1..Len(calls) : calls[c].task = k /\ calls[c].h = tasks'[k].h
            /\ Cardinality(added) =
                 Cardinality({i \in I : handlers[hs[i]].plugin # NullPlugin})
            /\ SubSeq(tasks', 1, Len(tasks)) = tasks]_vars

\* runEvent over two registered handles of different types invoked one of
\* them and pushed its task.
C10_Witness ==
  /\ lastCall.op = "runEvent"
  /\ Len(lastCall.hs) = 2
  /\ handlers[1].type # handlers[2].type
  /\ handlers[1].plugin # NullPlugin
  /\ handlers[2].plugin # NullPlugin
  /\ Len(lastCall.calls) = 1
  /\ lastCall.calls[1].task > 0
  /\ tasks[lastCall.calls[1].task].args = "y"

\* C11: when runEvent has returned its promise is resolved, a task has been
\* pushed for every matching registered handle of the list, and none of
\* those tasks' handler bodies has begun or settled its future.
C11_ResolvesOnceInitiated ==
  lastCall.op = "runEvent" =>
    /\ lastCall.promise = "resolved"
    /\ \A i \in 1..Len(lastCall.hs) :
         /\ handlers[lastCall.hs[i]].type = lastCall.name
         /\ handlers[lastCall.hs[i]].plugin # NullPlugin
         => \E c \in 1..Len(lastCall.calls) :
              /\ lastCall.calls[c].h = lastCall.hs[i]
              /\ lastCall.calls[c].task \in TaskIds
              /\ tasks[lastCall.calls[c].task].body = "none"
              /\ tasks[lastCall.calls[c].task].fut = "pending"

\* runEvent resolved after pushing a task that waits behind a handler whose
\* promise never settles.
C11_Witness ==
  /\ lastCall.op = "runEvent"
  /\ lastCall.promise = "resolved"
  /\ \E c \in 1..Len(lastCall.calls) :
       /\ lastCall.calls[c].task \in TaskIds
       /\ tasks[lastCall.calls[c].task].st = "queued"
  /\ \E u \in TaskIds : tasks[u].body = "pending" /\ tasks[u].awaits = -1

\* C12: a task whose handler returned a plain value, or returned a promise
\* that fulfilled, has its future resolved with exactly that value, and a
\* future is resolved with nothing else.
C12_FutureCarriesResult ==
  \A t \in TaskIds :
    /\ tasks[t].body \in {"returned", "fulfilled"} =>
         tasks[t].fut = "resolved" /\ tasks[t].result = tasks[t].out
    /\ tasks[t].fut = "resolved" =>
         tasks[t].body \in {"returned", "fulfilled"} /\ tasks[t].result \in Values

\* One handler returned the falsy number, one returned undefined, and one
\* returned a promise that fulfilled with a value: all three futures carry
\* what their handler produced.
C12_Witness ==
  /\ \E t \in TaskIds : tasks[t].body = "returned" /\ tasks[t].result = "0"
  /\ \E t \in TaskIds : tasks[t].body = "returned" /\ tasks[t].result = "undefined"
  /\ \E t \in TaskIds : tasks[t].body = "fulfilled" /\ tasks[t].result = "v"

\* C13 (as claimed): the parent recorded on a task is the token of the task
\* in whose execution the handle was invoked, and null when the handle was
\* invoked from code outside any run scope, whatever the queue holds then;
\* it is still that value once the task executes.
C13_ParentOfCaller ==
  \A i \in TaskIds :
    tasks[i].via = "invoke" =>
      tasks[i].parent = IF tasks[i].by = 0 THEN Null ELSE tasks[tasks[i].by].token

\* C14: a task still waiting in line has no token; a task the worker has
\* started has a token made of its own type and a uuid drawn for it, distinct
\* from every other task's token; and the store of the job that runs a
\* task's handler body is that task's own token.
C14_FreshTokenPerTask ==
  /\ \A t \in TaskIds :
       /\ tasks[t].st = "queued" => tasks[t].token = Undefined
       /\ tasks[t].st \in {"scheduled", "done"} =>
            /\ tasks[t].token.type = tasks[t].type
            /\ tasks[t].token.uuid \in 1..uuid
            /\ tasks[t].ctx = tasks[t].token
  /\ \A t, u \in TaskIds :
       t # u /\ tasks[t].token # Undefined => tasks[t].token # tasks[u].token
  /\ job.kind \in {"body", "tail"} =>
       /\ job.ctx = tasks[job.task].token
       /\ \A u \in TaskIds : u # job.task => job.ctx # tasks[u].token

\* The second task was invoked during the first one, waited in line, was
\* taken by the worker from the first task's completion callback and now
\* runs under its own token; both tasks have the same type.
C14_Witness ==
  /\ Len(tasks) >= 2
  /\ job.kind = "body"
  /\ job.task = 2
  /\ tasks[2].by = 1
  /\ tasks[1].body = "fulfilled"
  /\ tasks[1].type = tasks[2].type
  /\ job.ctx = tasks[2].token
  /\ job.ctx # tasks[1].token

\* C15: a handler body begins only in a step taken while no job is running,
\* for a task the worker had already taken in an earlier step: never in the
\* step that invokes or pushes the task, and never in the step whose
\* completion callback hands the task to the worker.
C15_BodyAfterYield ==
  [][\A t \in 1..Len(tasks') :
       /\ t > Len(tasks) \/ tasks[t].body = "none"
       /\ tasks'[t].body # "none"
       => /\ t <= Len(tasks)
          /\ job.kind = "none"
          /\ tasks[t].st = "scheduled"
          /\ job'.kind = "body"
          /\ job'.task = t]_vars

\* Top-level code invoked a handle on an idle queue: the worker has taken the
\* task, the caller's job is still running and the body has not begun.
C15_Witness ==
  /\ job.kind = "top"
  /\ lastCall.op = "invoke"
  /\ lastCall.ret = 1
  /\ queue = <<>>
  /\ running = 1
  /\ tasks[1].st = "scheduled"
  /\ tasks[1].body = "none"

\* C16: when runEvent has gone over a list holding a matching handle that is
\* not registered, its promise is resolved and every matching registered
\* handle of the list, before or after that one, was called without an
\* exception and has its task in the queue.
C16_UnregisteredDoesNotStopDispatch ==
  /\ lastCall.op = "runEvent"
  /\ \E i \in 1..Len(lastCall.hs) :
       /\ handlers[lastCall.hs[i]].type = lastCall.name
       /\ handlers[lastCall.hs[i]].plugin = NullPlugin
  => /\ lastCall.promise = "resolved"
     /\ \A i \in 1..Len(lastCall.hs) :
          /\ handlers[lastCall.hs[i]].type = lastCall.name
          /\ handlers[lastCall.hs[i]].plugin # NullPlugin
          => \E c \in 1..Len(lastCall.calls) :
               /\ lastCall.calls[c].h = lastCall.hs[i]
               /\ ~lastCall.calls[c].raised
               /\ lastCall.calls[c].task \in TaskIds
               /\ tasks[lastCall.calls[c].task].h = lastCall.hs[i]
               /\ tasks[lastCall.calls[c].task].st \in {"queued", "scheduled"}

\* The first handle of the list matched and was not registered, the second
\* matched and was registered: the first call returned a rejected promise,
\* the second pushed its task, and runEvent resolved.
C16_Witness ==
  /\ lastCall.op = "runEvent"
  /\ Len(lastCall.calls) = 2
  /\ handlers[lastCall.hs[1]].plugin = NullPlugin
  /\ lastCall.calls[1].h = lastCall.hs[1]
  /\ lastCall.calls[1].promise = "rejected"
  /\ lastCall.calls[2].h = lastCall.hs[2]
  /\ lastCall.calls[2].task \in TaskIds
  /\ lastCall.promise = "resolved"

\* The handler of task t returned a promise that never settles.
Hung(t) == tasks[t].body = "pending" /\ tasks[t].awaits = -1

Stalled(t) ==
  /\ tasks[t].fut = "pending"
  /\ running = Concurrency
  /\ \A u \in TaskIds : u > t => tasks[u].body = "none" /\ tasks[u].fut = "pending"

\* C17: while a task's handler waits on a promise that never settles, the
\* task's future is pending, the worker's slot is taken and no task pushed
\* after it has begun; and no step of the program ends that condition.
C17_HungHandlerStalls ==
  /\ [](\A t \in TaskIds : Hung(t) => Stalled(t))
  /\ [][\A t \in TaskIds : Hung(t) => Hung(t)']_vars

\* The first handler hangs; two tasks pushed afterwards wait in line and the
\* event loop has nothing left to run.
C17_Witness ==
  /\ Len(tasks) = 3
  /\ Hung(1)
  /\ queue = <<2, 3>>
  /\ job.kind = "none"
  /\ tasks[3].by = 0

\* The handler of task t is suspended on the future of a task it invoked.
AwaitsOwn(t) == tasks[t].body = "pending" /\ tasks[t].awaits > 0

\* C18: while a handler awaits the future of a task it invoked from inside
\* itself, the inner task waits in line behind it with no token and no body
\* begun, both futures are pending, no task pushed after the outer one has
\* begun, and no step of the program ends that condition.
C18_SelfAwaitDeadlock ==
  /\ [](\A t \in TaskIds :
          AwaitsOwn(t) =>
            LET i == tasks[t].awaits
            IN /\ i \in TaskIds
               /\ tasks[i].by = t
               /\ tasks[i].st = "queued"
               /\ \E k \in 1..Len(queue) : queue[k] = i
               /\ tasks[i].fut = "pending"
               /\ tasks[t].fut = "pending"
               /\ running = Concurrency
               /\ \A u \in TaskIds :
                    u > t => tasks[u].body = "none" /\ tasks[u].fut = "pending")
  /\ [][\A t \in TaskIds :
         AwaitsOwn(t) => AwaitsOwn(t)' /\ tasks'[t].awaits = tasks[t].awaits]_vars

\* The first handler awaits the task it invoked; that task and a task pushed
\* later from top-level code wait in line and nothing is left to run.
C18_Witness ==
  /\ Len(tasks) = 3
  /\ AwaitsOwn(1)
  /\ tasks[1].awaits = 2
  /\ tasks[3].by = 0
  /\ queue = <<2, 3>>
  /\ job.kind = "none"

\* C19 (as claimed): at most one queue and at most one context tracker are
\* ever created, and every task the worker has started was started with the
\* context tracker in place.
C19_CreatedOnceBeforeUse ==
  /\ eventSystemQueue <= 1
  /\ asyncStorage <= 1
  /\ \A t \in TaskIds :
       tasks[t].st # "queued" => asyncStorage = 1 /\ tasks[t].st # "stuck"

\* C20 (as claimed): with terminating handlers and a fair event loop every
\* task pushed is eventually executed to completion with its future
\* resolved, no task's body begins twice, and the queue is empty and idle
\* again and again (for good once nothing more is pushed).
C20_EveryTaskCompletes ==
  /\ \A t \in 1..MaxTasks :
       (t \in TaskIds) ~> (t \in TaskIds /\ Completed(t) /\ tasks[t].fut = "resolved")
  /\ [](\A i, j \in 1..Len(started) : i # j => started[i] # started[j])
  /\ []<>(queue = <<>> /\ running = 0)

====
